---- MODULE Spec2Model ----
(***************************************************************************)
(* Near field to far field transformation (tidy3d plugins/near2far).       *)
(*                                                                         *)
(* The engine (class Near2Far) is built once from a simulation dataset and *)
(* a list of surface monitors and is then queried for far fields, power    *)
(* and radar cross section.                                                *)
(*                                                                         *)
(* Numbers.  The code computes with floats and complex floats.  The model  *)
(* computes with exact complex rationals: a number is <<a, b, d>>, meaning *)
(* (a + b*j) / d, with d > 0 and gcd(a, b, d) = 1, so that equal numbers   *)
(* are equal values.  Rounding is not modelled.                            *)
(*                                                                         *)
(* Angles are whole multiples of pi/2 (theta = 1 means pi/2), so sin and   *)
(* cos are -1, 0 or 1.  The wavenumber k0 is kept as its multiple of pi    *)
(* (k0 = 1/2 means pi/2 per length unit); a complex exponential exp(w) is  *)
(* evaluated for w = j*pi*q with 2q an integer, where it is 1, j, -1, -j.  *)
(* The queries are enabled for the arguments on which every such           *)
(* conversion is exact (predicate Exact).                                  *)
(***************************************************************************)
EXTENDS Integers, Sequences, FiniteSets, TLC

(* ------------------------------------------------------------------ *)
(* exact complex rationals                                             *)
(* ------------------------------------------------------------------ *)

IAbs(n) == IF n < 0 THEN -n ELSE n

RECURSIVE GCD(_, _)
GCD(a, b) == IF b = 0 THEN a ELSE GCD(b, a % b)

\* (a + b*j) / d in lowest terms, d > 0
Lowest(a, b, d, g) == <<a \div g, b \div g, d \div g>>
Num(a, b, d) ==
    IF d < 0 THEN Lowest(-a, -b, -d, GCD(GCD(IAbs(a), IAbs(b)), IAbs(d)))
    ELSE Lowest(a, b, d, GCD(GCD(IAbs(a), IAbs(b)), IAbs(d)))

R(n) == <<n, 0, 1>>
Zero == <<0, 0, 1>>
One == <<1, 0, 1>>
ImagUnit == <<0, 1, 1>>

Add(x, y) == Num(x[1] * y[3] + y[1] * x[3], x[2] * y[3] + y[2] * x[3], x[3] * y[3])
Neg(x) == <<-x[1], -x[2], x[3]>>
Sub(x, y) == Add(x, Neg(y))
Mul(x, y) == Num(x[1] * y[1] - x[2] * y[2], x[1] * y[2] + x[2] * y[1], x[3] * y[3])
Conj(x) == <<x[1], -x[2], x[3]>>
\* x / y, y nonzero: x * conj(y) / |y|^2
Div(x, y) ==
    Num((x[1] * y[1] + x[2] * y[2]) * y[3], (x[2] * y[1] - x[1] * y[2]) * y[3],
        x[3] * (y[1] * y[1] + y[2] * y[2]))
Real(x) == Num(x[1], 0, x[3])
\* |x|^2
AbsSq(x) == Num(x[1] * x[1] + x[2] * x[2], 0, x[3] * x[3])
IsReal(x) == x[2] = 0
Less(x, y) == x[1] * y[3] < y[1] * x[3]
\* int(np.ceil(x)) of a real x
Ceil(x) == -((-x[1]) \div x[3])
\* bool(x) of a number: nonzero
Truthy(x) == x[1] # 0 \/ x[2] # 0

RECURSIVE SumNum(_)
SumNum(s) == IF s = <<>> THEN Zero ELSE Add(Head(s), SumNum(Tail(s)))

(* ------------------------------------------------------------------ *)
(* numpy arrays: a shape and the elements in row-major order           *)
(* ------------------------------------------------------------------ *)

\* Python evaluates a value before it uses it: v is computed here, once
Evaluated(v) == v = v

NDArray(shape, flat) == CASE Evaluated(flat) -> [shape |-> shape, flat |-> flat]
Scalar(v) == NDArray(<<>>, <<v>>)

RECURSIVE Prod(_)
Prod(s) == IF s = <<>> THEN 1 ELSE Head(s) * Prod(Tail(s))

\* the shape as two dimensions, padded with leading ones (numpy's broadcast alignment)
Pad2(shape) ==
    IF Len(shape) = 0 THEN <<1, 1>>
    ELSE IF Len(shape) = 1 THEN <<1, shape[1]>>
    ELSE shape

\* element (i, j), 1-based, of an array broadcast to two dimensions
At2(A, i, j) ==
    LET p == Pad2(A.shape)
        ii == IF p[1] = 1 THEN 1 ELSE i
        jj == IF p[2] = 1 THEN 1 ELSE j
    IN  A.flat[(ii - 1) * p[2] + jj]

BroadcastDim(m, n) == IF m = n THEN m ELSE IF m = 1 THEN n ELSE IF n = 1 THEN m ELSE -1

\* a raised exception, as a value: [raised |-> <its type>]
ValueError == [raised |-> "ValueError"]
IsRaised(A) == "raised" \in DOMAIN A

\* elementwise F over two arrays of at most two dimensions, with numpy broadcasting;
\* ValueError when the shapes cannot be broadcast together
Broadcast(F(_, _), A, B) ==
    IF IsRaised(A) \/ IsRaised(B) THEN ValueError
    ELSE
    LET pa == Pad2(A.shape)
        pb == Pad2(B.shape)
        rows == BroadcastDim(pa[1], pb[1])
        cols == BroadcastDim(pa[2], pb[2])
        nd == IF Len(A.shape) > Len(B.shape) THEN Len(A.shape) ELSE Len(B.shape)
        full == <<rows, cols>>
    IN  IF rows < 0 \/ cols < 0 THEN ValueError
        ELSE NDArray(SubSeq(full, 3 - nd, 2),
                     [k \in 1..(rows * cols) |->
                        LET i == ((k - 1) \div cols) + 1
                            j == ((k - 1) % cols) + 1
                        IN  F(At2(A, i, j), At2(B, i, j))])

AMul(A, B) == Broadcast(Mul, A, B)
ASub(A, B) == Broadcast(Sub, A, B)
AMap(F(_), A) == NDArray(A.shape, [k \in 1..Len(A.flat) |-> F(A.flat[k])])

\* np.squeeze: drop the dimensions of length one, keep the elements
RECURSIVE DropOnes(_)
DropOnes(shape) ==
    IF shape = <<>> THEN <<>>
    ELSE IF Head(shape) = 1 THEN DropOnes(Tail(shape))
    ELSE <<Head(shape)>> \o DropOnes(Tail(shape))

np_squeeze(A) == NDArray(DropOnes(A.shape), A.flat)

\* np.linspace(start, stop, num), num >= 1
np_linspace(start, stop, num) ==
    CASE Evaluated(<<start, stop, num>>) ->
    IF num = 1 THEN <<start>>
    ELSE [i \in 1..num |-> Add(start, Div(Mul(R(i - 1), Sub(stop, start)), R(num - 1)))]

\* np.meshgrid(u, v, indexing="ij"): two arrays of shape (len u, len v)
np_meshgrid(u, v) ==
    LET nu == Len(u)
        nv == Len(v)
    IN  << NDArray(<<nu, nv>>, [k \in 1..(nu * nv) |-> u[((k - 1) \div nv) + 1]]),
           NDArray(<<nu, nv>>, [k \in 1..(nu * nv) |-> v[((k - 1) % nv) + 1]]) >>

\* G[:, 0] and G[0, :] of a two-dimensional array
Column0(G) == [i \in 1..G.shape[1] |-> At2(G, i, 1)]
Row0(G) == [j \in 1..G.shape[2] |-> At2(G, 1, j)]

\* np.trapz(y, x, axis=0) for y of one or two dimensions and x of one:
\* d = diff(x); (d * (y[1:] + y[:-1]) / 2.0).sum(axis 0), d broadcast against the rows
np_trapz(y, x) ==
    IF IsRaised(y) THEN ValueError
    ELSE
    LET nd == Len(y.shape)
        yr == y.shape[1]
        cols == IF nd = 2 THEN y.shape[2] ELSE 1
        dl == Len(x) - 1
        rows == BroadcastDim(dl, yr - 1)
        elem(i, j) == y.flat[(i - 1) * cols + j]
        d(i) == LET ii == IF dl = 1 THEN 1 ELSE i IN Sub(x[ii + 1], x[ii])
        pair(i, j) == LET ii == IF yr - 1 = 1 THEN 1 ELSE i
                      IN  Add(elem(ii + 1, j), elem(ii, j))
        term(i, j) == Div(Mul(d(i), pair(i, j)), R(2))
        col(j) == SumNum([i \in 1..rows |-> term(i, j)])
    IN  IF rows < 0 THEN ValueError
        ELSE IF nd = 2 THEN NDArray(<<cols>>, [j \in 1..cols |-> col(j)])
        ELSE Scalar(col(1))

(* ------------------------------------------------------------------ *)
(* tidy3d.constants, in the model's units                              *)
(* ------------------------------------------------------------------ *)

\* speed of light: 4 length units per time unit, so frequency 1 has wavelength 4
C_0 == 4
\* free-space impedance
ETA_0 == 3

(* ------------------------------------------------------------------ *)
(* the collaborators: monitors and the simulation dataset              *)
(* ------------------------------------------------------------------ *)

V3(x, y, z) == <<R(x), R(y), R(z)>>

\* a monitor name is its sequence of characters
Chars(name) == {name[i] : i \in 1..Len(name)}

FieldMonitor(name, center, size) == [name |-> name, center |-> center, size |-> size]

\* the field the dataset samples: component c at point p is Amp[c] * (1 + x + 2y + 3z)
Amp ==
    [Ex |-> <<1, 0, 1>>, Ey |-> <<2, 1, 1>>, Ez |-> <<0, 3, 1>>,
     Hx |-> <<1, 1, 1>>, Hy |-> <<0, 2, 1>>, Hz |-> <<3, 0, 1>>]

Profile(p) == Add(One, Add(p[1], Add(Mul(R(2), p[2]), Mul(R(3), p[3]))))

\* one stored field component: the frequencies of its f coordinate and its amplitude
ScalarFieldData(c, freqs) == [f |-> freqs, amp |-> Amp[c]]

\* FieldData.colocate(x, y, z): every stored component resampled at the given
\* coordinates; the values have one dimension per axis, of length one along the
\* monitor's normal
colocate(field_data, x, y, z) ==
    LET nx == Len(x)
        ny == Len(y)
        nz == Len(z)
    IN  [c \in DOMAIN field_data |->
            [f |-> field_data[c].f,
             values |-> NDArray(<<nx, ny, nz>>,
                [k \in 1..(nx * ny * nz) |->
                    LET i == ((k - 1) \div (ny * nz)) + 1
                        j == (((k - 1) \div nz) % ny) + 1
                        l == ((k - 1) % nz) + 1
                    IN  Mul(field_data[c].amp, Profile(<<x[i], y[j], z[l]>>))])]]

KeyError == [raised |-> "KeyError"]

\* DataArray.sel(f=frequency).values
sel(field, frequency) == IF frequency \in field.f THEN field.values ELSE KeyError

(* ------------------------------------------------------------------ *)
(* Near2Far._get_data_from_monitor                                     *)
(* ------------------------------------------------------------------ *)

Near2FarData(mon_axis, grid_points, center, J, M) ==
    [mon_axis |-> mon_axis, grid_points |-> grid_points, center |-> center,
     J |-> J, M |-> M]

SetupError(fmt, name) == [raised |-> "SetupError", fmt |-> fmt, name |-> name]

NotASurface(mon) ==
    SetupError("Can't compute far fields for the monitor {mon.name} because it is not a surface.",
               mon.name)
NoData(mon) ==
    SetupError("No data for monitor named '{mon.name}' found in supplied sim_data.", mon.name)
NoEField(mon) ==
    SetupError("Monitor named '{mon.name}' doesn't store required E field values", mon.name)
NoHField(mon) ==
    SetupError("Monitor named '{mon.name}' doesn't store required H field values", mon.name)
NoFrequency(mon, frequency) ==
    [raised |-> "SetupError",
     fmt |-> "Frequency {self.frequency} not found in all fields from monitor '{mon.name}'.",
     name |-> mon.name, frequency |-> frequency]

\* a test that rejects volumes only: sum(bool(size) for size in mon.size) > 2
more_than_a_surface(mon) == Cardinality({i \in 1..3 : Truthy(mon.size[i])}) > 2

\* sum(bool(size) for size in mon.size) != 2
not_a_surface(mon) == Cardinality({i \in 1..3 : Truthy(mon.size[i])}) # 2

\* np.argmin(mon.size): the first index (from 0) of the smallest extent
np_argmin(size) ==
    CHOOSE a \in 0..2 :
        /\ \A k \in 0..2 : ~Less(size[k + 1], size[a + 1])
        /\ \A k \in 0..(a - 1) : Less(size[a + 1], size[k + 1])

\* a table with the signs [-1, 1] for every normal axis
axis_table_one_sign(mon_axis) ==
    IF mon_axis = 0
    THEN [required_fields |-> <<"y", "z">>, idx_uv |-> <<1, 2>>, signs |-> <<R(-1), R(1)>>]
    ELSE IF mon_axis = 1
    THEN [required_fields |-> <<"x", "z">>, idx_uv |-> <<0, 2>>, signs |-> <<R(-1), R(1)>>]
    ELSE [required_fields |-> <<"x", "y">>, idx_uv |-> <<0, 1>>, signs |-> <<R(-1), R(1)>>]

\* the tangential components, their indices and the orientation signs of a normal axis
axis_table(mon_axis) ==
    IF mon_axis = 0
    THEN [required_fields |-> <<"y", "z">>, idx_uv |-> <<1, 2>>, signs |-> <<R(-1), R(1)>>]
    ELSE IF mon_axis = 1
    THEN [required_fields |-> <<"x", "z">>, idx_uv |-> <<0, 2>>, signs |-> <<R(1), R(-1)>>]
    ELSE [required_fields |-> <<"x", "y">>, idx_uv |-> <<0, 1>>, signs |-> <<R(-1), R(1)>>]

\* wavelength = np.real(2.0 * np.pi / self.k0), k0 in units of pi
wavelength_of(k0) == Real(Div(R(2), k0))

\* the collocation points along tangential axis idx
axis_points(self, mon, idx) ==
    LET num_pts == Ceil(Div(Mul(R(self.pts_per_wavelength), mon.size[idx + 1]),
                            wavelength_of(self.k0)))
        start == Sub(mon.center[idx + 1], Div(mon.size[idx + 1], R(2)))
        stop == Add(mon.center[idx + 1], Div(mon.size[idx + 1], R(2)))
    IN  np_linspace(start, stop, num_pts)

\* the signs of the table, whatever the monitor's name
unflipped_signs(mon, signs) == signs

\* signs = [-1.0 * i for i in signs] when "-" is in the monitor's name
oriented_signs(mon, signs) ==
    IF "-" \in Chars(mon.name) THEN [i \in 1..2 |-> Mul(R(-1), signs[i])] ELSE signs

\* any(prefix + field_name not in monitor_fields for field_name in required_fields)
missing_component(prefix, required_fields, monitor_fields) ==
    \E i \in 1..Len(required_fields) : (prefix \o required_fields[i]) \notin monitor_fields

Scale(sign, A) == AMap(LAMBDA v : Mul(sign, v), A)

\* J = (signs[0] * squeeze(Hv), signs[1] * squeeze(Hu))
equivalent_J(signs, Hu, Hv) == <<Scale(signs[1], np_squeeze(Hv)), Scale(signs[2], np_squeeze(Hu))>>
\* M = (signs[1] * squeeze(Ev), signs[0] * squeeze(Eu))
equivalent_M(signs, Eu, Ev) == <<Scale(signs[2], np_squeeze(Ev)), Scale(signs[1], np_squeeze(Eu))>>

\* lines 162-186: the selected fields, or the error of a frequency that is not stored
equivalent_sources(self, mon, mon_axis, signs, grid_points, Eu, Ev, Hu, Hv) ==
    CASE Evaluated(<<Eu, Ev, Hu, Hv>>) ->
    IF IsRaised(Eu) \/ IsRaised(Ev) \/ IsRaised(Hu) \/ IsRaised(Hv)
    THEN NoFrequency(mon, self.frequency)
    ELSE Near2FarData(mon_axis, grid_points, mon.center,
                      equivalent_J(signs, Hu, Hv), equivalent_M(signs, Eu, Ev))

\* the same selection with the H components looked for before the E components
select_fields_H_first(self, mon, mon_axis, t, grid_points, field_data) ==
    CASE Evaluated(<<grid_points, field_data>>) ->
    IF missing_component("H", t.required_fields, DOMAIN field_data) THEN NoHField(mon)
    ELSE IF missing_component("E", t.required_fields, DOMAIN field_data) THEN NoEField(mon)
    ELSE equivalent_sources(self, mon, mon_axis, oriented_signs(mon, t.signs), grid_points,
                            sel(field_data["E" \o t.required_fields[1]], self.frequency),
                            sel(field_data["E" \o t.required_fields[2]], self.frequency),
                            sel(field_data["H" \o t.required_fields[1]], self.frequency),
                            sel(field_data["H" \o t.required_fields[2]], self.frequency))

\* lines 151-172: the orientation, the stored components, the selection at self.frequency
select_fields(self, mon, mon_axis, t, grid_points, field_data) ==
    CASE Evaluated(<<grid_points, field_data>>) ->
    IF missing_component("E", t.required_fields, DOMAIN field_data) THEN NoEField(mon)
    ELSE IF missing_component("H", t.required_fields, DOMAIN field_data) THEN NoHField(mon)
    ELSE equivalent_sources(self, mon, mon_axis, oriented_signs(mon, t.signs), grid_points,
                            sel(field_data["E" \o t.required_fields[1]], self.frequency),
                            sel(field_data["E" \o t.required_fields[2]], self.frequency),
                            sel(field_data["H" \o t.required_fields[1]], self.frequency),
                            sel(field_data["H" \o t.required_fields[2]], self.frequency))

\* colocation_points: the centre along the normal, the points along the tangential axes
colocation_points(mon, mon_axis, idx_uv, u, v, i) ==
    IF i = mon_axis THEN <<mon.center[i + 1]>> ELSE IF i = idx_uv[1] THEN u ELSE v

\* lines 141-142: the grid and the collocated fields
colocate_on_grid(self, mon, mon_axis, t, field_data, u, v) ==
    CASE Evaluated(<<u, v>>) ->
    select_fields(self, mon, mon_axis, t, np_meshgrid(u, v),
                  colocate(field_data,
                           colocation_points(mon, mon_axis, t.idx_uv, u, v, 0),
                           colocation_points(mon, mon_axis, t.idx_uv, u, v, 1),
                           colocation_points(mon, mon_axis, t.idx_uv, u, v, 2)))

\* lines 105-139: the tangential axes of the normal and the points along them
sample_surface(self, mon, mon_axis, t, field_data) ==
    colocate_on_grid(self, mon, mon_axis, t, field_data,
                     axis_points(self, mon, t.idx_uv[1]), axis_points(self, mon, t.idx_uv[2]))

\* the Near2FarData of a monitor, or the SetupError raised
_get_data_from_monitor(self, sim_data, mon) ==
    IF not_a_surface(mon) THEN NotASurface(mon)
    ELSE IF mon.name \notin DOMAIN sim_data THEN NoData(mon)
    ELSE sample_surface(self, mon, np_argmin(mon.size), axis_table(np_argmin(mon.size)),
                        sim_data[mon.name])

(* ------------------------------------------------------------------ *)
(* Near2Far.__init__                                                   *)
(* ------------------------------------------------------------------ *)

NoException == [raised |-> "none"]
ZeroDivisionError == [raised |-> "ZeroDivisionError"]

\* the fields __init__ sets before it reads the monitors
new_self(frequency, pts_per_wavelength) ==
    [spacetime_sign |-> 1,
     frequency |-> frequency,
     k0 |-> Div(R(2 * frequency), R(C_0)),
     pts_per_wavelength |-> pts_per_wavelength]

\* for mon in mons: self.data.append(self._get_data_from_monitor(sim_data, mon));
\* the data appended so far and the exception that ended the loop, if any
RECURSIVE append_data(_, _, _, _)
\* a loop that leaves out a monitor whose extraction raised, and goes on
skip_raised(self, sim_data, mons, acc, d) ==
    CASE Evaluated(d) ->
    IF IsRaised(d) THEN append_data(self, sim_data, Tail(mons), acc)
    ELSE append_data(self, sim_data, Tail(mons), Append(acc, d))

\* self.data.append(d), unless the extraction raised
append(self, sim_data, mons, acc, d) ==
    CASE Evaluated(d) ->
    IF IsRaised(d) THEN [data |-> acc, exc |-> d]
    ELSE append_data(self, sim_data, Tail(mons), Append(acc, d))

append_data(self, sim_data, mons, acc) ==
    IF mons = <<>> THEN [data |-> acc, exc |-> NoException]
    ELSE append(self, sim_data, mons, acc, _get_data_from_monitor(self, sim_data, Head(mons)))

\* for data in self.data: self.origin = [sum(x) for x in zip(self.origin, data.center)]
RECURSIVE sum_centers(_, _)
sum_centers(origin, data) ==
    IF data = <<>> THEN origin
    ELSE sum_centers([i \in 1..3 |-> Add(origin[i], Head(data).center[i])], Tail(data))

\* the sum of the centres, not divided
center_sum(origin, n) == [i \in 1..3 |-> origin[i]]

\* self.origin[:] = [x / len(self.data) for x in self.origin]
mean_center(origin, n) == [i \in 1..3 |-> Div(origin[i], R(n))]

\* what the constructor call leaves: the fields it assigned, and how it ended
Outcome(self, data, origin, exc) ==
    [spacetime_sign |-> self.spacetime_sign, frequency |-> self.frequency, k0 |-> self.k0,
     pts_per_wavelength |-> self.pts_per_wavelength, data |-> data, origin |-> origin,
     exc |-> exc]

\* lines 66-69: the division by len(self.data) raises on an empty list
centroid(self, data, total) ==
    IF Len(data) = 0 THEN Outcome(self, data, total, ZeroDivisionError)
    ELSE Outcome(self, data, mean_center(total, Len(data)), NoException)

\* lines 60-69: an exception of the loop leaves before self.origin is assigned
after_loop(self, loop) ==
    CASE Evaluated(loop) ->
    IF loop.exc # NoException THEN Outcome(self, loop.data, <<>>, loop.exc)
    ELSE centroid(self, loop.data, sum_centers(V3(0, 0, 0), loop.data))

read_monitors(self, sim_data, mons) == after_loop(self, append_data(self, sim_data, mons, <<>>))

__init__(sim_data, mons, frequency, pts_per_wavelength) ==
    read_monitors(new_self(frequency, pts_per_wavelength), sim_data, mons)

(* ------------------------------------------------------------------ *)
(* coordinate conversions                                              *)
(* ------------------------------------------------------------------ *)

\* sine and cosine of q quarter turns
np_sin(q) == LET m == q % 4 IN R(IF m = 1 THEN 1 ELSE IF m = 3 THEN -1 ELSE 0)
np_cos(q) == LET m == q % 4 IN R(IF m = 0 THEN 1 ELSE IF m = 2 THEN -1 ELSE 0)

\* exp(w * pi) for w = j*q with 2q an integer
ExpExact(w) == w[1] = 0 /\ 2 % w[3] = 0
np_exp(w) ==
    LET m == ((2 \div w[3]) * w[2]) % 4
    IN  IF m = 0 THEN One ELSE IF m = 1 THEN ImagUnit
        ELSE IF m = 2 THEN Neg(One) ELSE Neg(ImagUnit)

\* the square root of a real that is the square of a rational
IsSquare(n) == \E k \in 0..n : k * k = n
ISqrt(n) == CHOOSE k \in 0..n : k * k = n
SqrtExact(x) == x[2] = 0 /\ x[1] >= 0 /\ IsSquare(x[1]) /\ IsSquare(x[3])
np_sqrt(x) == Num(ISqrt(x[1]), 0, ISqrt(x[3]))

\* arccos of -1, 0, 1 and arctan2 of a point on an axis, in quarter turns
np_arccos(c) == IF c = One THEN 0 ELSE IF c = Zero THEN 1 ELSE 2
np_arctan2(y, x) ==
    IF y = Zero THEN (IF Less(x, Zero) THEN 2 ELSE 0)
    ELSE IF Less(Zero, y) THEN 1 ELSE -1

SumSq(x, y, z) == Add(Mul(x, x), Add(Mul(y, y), Mul(z, z)))

\* the conversion of (x, y, z) is exact: the point is on a coordinate axis, off the origin
CarExact(x, y, z) ==
    /\ SqrtExact(SumSq(x, y, z))
    /\ SumSq(x, y, z) # Zero
    /\ Div(z, np_sqrt(SumSq(x, y, z))) \in {One, Zero, Neg(One)}
    /\ x = Zero \/ y = Zero

_car_2_sph(x, y, z) ==
    LET r == np_sqrt(SumSq(x, y, z))
    IN  [r |-> r, theta |-> np_arccos(Div(z, r)), phi |-> np_arctan2(y, x)]

_sph_2_car(r, theta, phi) ==
    LET r_sin_theta == Mul(r, np_sin(theta))
    IN  [x |-> Mul(r_sin_theta, np_cos(phi)),
         y |-> Mul(r_sin_theta, np_sin(phi)),
         z |-> Mul(r, np_cos(theta))]

_sph_2_car_field(Ar, Atheta, Aphi, theta, phi) ==
    LET sin_theta == np_sin(theta)
        cos_theta == np_cos(theta)
        sin_phi == np_sin(phi)
        cos_phi == np_cos(phi)
    IN  << Sub(Add(Mul(Mul(Ar, sin_theta), cos_phi), Mul(Mul(Atheta, cos_theta), cos_phi)),
               Mul(Aphi, sin_phi)),
           Add(Add(Mul(Mul(Ar, sin_theta), sin_phi), Mul(Mul(Atheta, cos_theta), sin_phi)),
               Mul(Aphi, cos_phi)),
           Sub(Mul(Ar, cos_theta), Mul(Atheta, sin_theta)) >>

(* ------------------------------------------------------------------ *)
(* radiation vectors                                                   *)
(* ------------------------------------------------------------------ *)

\* the monitor's points relative to the origin, along x, y and z, and the indices
\* of the tangential axes
local_coordinates(self, data) ==
    LET w0 == Scalar(Sub(data.center[data.mon_axis + 1], self.origin[data.mon_axis + 1]))
        g0(i) == ASub(data.grid_points[1], Scalar(self.origin[i + 1]))
        g1(i) == ASub(data.grid_points[2], Scalar(self.origin[i + 1]))
    IN  IF data.mon_axis = 0
        THEN [xp |-> w0, yp |-> g0(1), zp |-> g1(2), source_indices |-> <<1, 2>>]
        ELSE IF data.mon_axis = 1
        THEN [xp |-> g0(0), yp |-> w0, zp |-> g1(2), source_indices |-> <<0, 2>>]
        ELSE [xp |-> g0(0), yp |-> g1(1), zp |-> w0, source_indices |-> <<0, 1>>]

\* -self.spacetime_sign * 1j * self.k0 * p * trig, in units of pi
phase_arg(self, p, trig) ==
    Mul(Mul(Mul(Mul(R(-self.spacetime_sign), ImagUnit), self.k0), p), trig)

\* np.exp(-self.spacetime_sign * 1j * self.k0 * P * trig) over the points P
phase_factor(self, P, trig) == AMap(LAMBDA p : np_exp(phase_arg(self, p, trig)), P)

\* phase = phase_x * phase_y * phase_z
phase_of(self, theta, phi, c) ==
    AMul(AMul(phase_factor(self, c.xp, Mul(np_sin(theta), np_cos(phi))),
              phase_factor(self, c.yp, Mul(np_sin(theta), np_sin(phi)))),
         phase_factor(self, c.zp, np_cos(theta)))

\* the three factors of the phase are exact for these points at this angle
PointsExact(self, theta, phi, c) ==
    /\ Evaluated(c)
    /\ \A k \in 1..Len(c.xp.flat) :
          ExpExact(phase_arg(self, c.xp.flat[k], Mul(np_sin(theta), np_cos(phi))))
    /\ \A k \in 1..Len(c.yp.flat) :
          ExpExact(phase_arg(self, c.yp.flat[k], Mul(np_sin(theta), np_sin(phi))))
    /\ \A k \in 1..Len(c.zp.flat) :
          ExpExact(phase_arg(self, c.zp.flat[k], np_cos(theta)))

PhaseExact(self, theta, phi, data) ==
    PointsExact(self, theta, phi, local_coordinates(self, data))

\* np.trapz(np.trapz(f * phase, grid_points[0][:,0], axis=0), grid_points[1][0,:], axis=0)
integrate(y, grid_points) ==
    CASE Evaluated(y) -> np_trapz(np_trapz(y, Column0(grid_points[1])), Row0(grid_points[2]))

surface_integral(f, phase, grid_points) == integrate(AMul(f, phase), grid_points)

\* the four integrals of lines 240-248
source_integrals(data, phase) ==
    CASE Evaluated(phase) ->
    [J0 |-> surface_integral(data.J[1], phase, data.grid_points),
     J1 |-> surface_integral(data.J[2], phase, data.grid_points),
     M0 |-> surface_integral(data.M[1], phase, data.grid_points),
     M1 |-> surface_integral(data.M[2], phase, data.grid_points)]

\* A = [0, 0, 0]; A[source_indices[0]] = a; A[source_indices[1]] = b
source_vector(source_indices, a, b) ==
    [i \in 1..3 |->
        IF i - 1 = source_indices[1] THEN a.flat[1]
        ELSE IF i - 1 = source_indices[2] THEN b.flat[1] ELSE Zero]

\* A[0] * cos_theta * cos_phi + A[1] * cos_theta * sin_phi - A[2] * sin_theta
theta_part(A, theta, phi) ==
    Sub(Add(Mul(Mul(A[1], np_cos(theta)), np_cos(phi)),
            Mul(Mul(A[2], np_cos(theta)), np_sin(phi))),
        Mul(A[3], np_sin(theta)))

\* -A[0] * sin_phi + A[1] * cos_phi
phi_part(A, phi) == Add(Mul(Neg(A[1]), np_sin(phi)), Mul(A[2], np_cos(phi)))

RadiationVectors(N_theta, N_phi, L_theta, L_phi) ==
    [N_theta |-> N_theta, N_phi |-> N_phi, L_theta |-> L_theta, L_phi |-> L_phi]

\* lines 250-262
project_sources(theta, phi, J, M) ==
    RadiationVectors(theta_part(J, theta, phi), phi_part(J, phi),
                     theta_part(M, theta, phi), phi_part(M, phi))

\* lines 237-262; an integral that raised ends the call
vectors_of_integrals(theta, phi, source_indices, I) ==
    CASE Evaluated(I) ->
    IF IsRaised(I.J0) \/ IsRaised(I.J1) \/ IsRaised(I.M0) \/ IsRaised(I.M1) THEN ValueError
    ELSE project_sources(theta, phi, source_vector(source_indices, I.J0, I.J1),
                         source_vector(source_indices, I.M0, I.M1))

\* lines 232-262, from the local coordinates on
vectors_at(self, theta, phi, data, c) ==
    CASE Evaluated(c) ->
    vectors_of_integrals(theta, phi, c.source_indices,
                         source_integrals(data, phase_of(self, theta, phi, c)))

_radiation_vectors_per_monitor(self, theta, phi, data) ==
    vectors_at(self, theta, phi, data, local_coordinates(self, data))

\* an assignment in place of the accumulation: N_theta = _N_th, ...
assign_vectors(acc, v) == RadiationVectors(v.N_theta, v.N_phi, v.L_theta, v.L_phi)

\* N_theta += _N_th; N_phi += _N_ph; L_theta += _L_th; L_phi += _L_ph
add_vectors(acc, v) ==
    RadiationVectors(Add(acc.N_theta, v.N_theta), Add(acc.N_phi, v.N_phi),
                     Add(acc.L_theta, v.L_theta), Add(acc.L_phi, v.L_phi))

\* for data in self.data: ..., from (0.0, 0.0, 0.0, 0.0)
RECURSIVE accumulate(_, _, _, _, _)
\* one turn of the loop, v the vectors of the first monitor of data
accumulate_one(self, theta, phi, data, acc, v) ==
    CASE Evaluated(<<acc, v>>) ->
    IF IsRaised(v) THEN v
    ELSE accumulate(self, theta, phi, Tail(data), add_vectors(acc, v))

accumulate(self, theta, phi, data, acc) ==
    IF data = <<>> THEN acc
    ELSE accumulate_one(self, theta, phi, data, acc,
                        _radiation_vectors_per_monitor(self, theta, phi, Head(data)))

_radiation_vectors(self, theta, phi) ==
    CASE Evaluated(<<theta, phi>>) ->
    accumulate(self, theta, phi, self.data, RadiationVectors(Zero, Zero, Zero, Zero))

(* ------------------------------------------------------------------ *)
(* the queries                                                         *)
(* ------------------------------------------------------------------ *)

\* r, theta, phi = _car_2_sph(x - origin[0], y - origin[1], z - origin[2])
recentre(self, x, y, z) ==
    _car_2_sph(Sub(x, self.origin[1]), Sub(y, self.origin[2]), Sub(z, self.origin[3]))
RecentreExact(self, x, y, z) ==
    CarExact(Sub(x, self.origin[1]), Sub(y, self.origin[2]), Sub(z, self.origin[3]))

\* lines 312-313 and 426-427: the observation point in the local coordinate system
to_local(self, p) == CASE Evaluated(p) -> recentre(self, p.x, p.y, p.z)
local_point(self, r, theta, phi) == to_local(self, _sph_2_car(r, theta, phi))

AnglesExact(self, q) ==
    /\ Evaluated(q)
    /\ \A i \in 1..Len(self.data) : PhaseExact(self, q.theta, q.phi, self.data[i])
ToLocalExact(self, p) ==
    /\ Evaluated(p)
    /\ RecentreExact(self, p.x, p.y, p.z)
    /\ AnglesExact(self, to_local(self, p))
LocalExact(self, r, theta, phi) == ToLocalExact(self, _sph_2_car(r, theta, phi))

\* the exponent of exp(self.spacetime_sign * 1j * self.k0 * r), in units of pi
radial_arg(self, r) == Mul(Mul(Mul(R(self.spacetime_sign), ImagUnit), self.k0), r)

\* -sign * 1j * k0 * exp(sign * 1j * k0 * r) / (4 * pi * r): the pi of k0 cancels
scalar_proj(self, r) ==
    Div(Mul(Mul(Mul(R(-self.spacetime_sign), ImagUnit), self.k0), np_exp(radial_arg(self, r))),
        Mul(R(4), r))

Fields(E, H) == [E |-> E, H |-> H]

\* E_theta with ETA_0 added, not multiplied by N_theta
E_theta_offset(scalar_proj_r, rv) ==
    Mul(Neg(scalar_proj_r), Add(rv.L_phi, R(ETA_0)))

\* E_theta = -scalar_proj_r * (L_phi + ETA_0 * N_theta)
E_theta_of(scalar_proj_r, rv) ==
    Mul(Neg(scalar_proj_r), Add(rv.L_phi, Mul(R(ETA_0), rv.N_theta)))
\* E_phi = scalar_proj_r * (L_theta - ETA_0 * N_phi)
E_phi_of(scalar_proj_r, rv) ==
    Mul(scalar_proj_r, Sub(rv.L_theta, Mul(R(ETA_0), rv.N_phi)))

\* lines 321-333: E = (E_r, E_theta, E_phi), H = (H_r, -E_phi / ETA_0, E_theta / ETA_0)
stack_fields(E_theta, E_phi) ==
    CASE Evaluated(<<E_theta, E_phi>>) ->
    Fields(<<Zero, E_theta, E_phi>>,
           <<Zero, Div(Neg(E_phi), R(ETA_0)), Div(E_theta, R(ETA_0))>>)

\* lines 316-333; the exception of _radiation_vectors passes through
assemble_fields(scalar_proj_r, rv) ==
    CASE Evaluated(rv) ->
    IF IsRaised(rv) THEN rv
    ELSE stack_fields(E_theta_of(scalar_proj_r, rv), E_phi_of(scalar_proj_r, rv))

fields_at(self, q) ==
    CASE Evaluated(q) ->
    assemble_fields(scalar_proj(self, q.r), _radiation_vectors(self, q.theta, q.phi))

fields_spherical(self, r, theta, phi) == fields_at(self, local_point(self, r, theta, phi))
FieldsSphericalExact(self, r, theta, phi) ==
    /\ LocalExact(self, r, theta, phi)
    /\ ExpExact(radial_arg(self, local_point(self, r, theta, phi).r))
SphericalExactAt(self, s) == Evaluated(s) /\ FieldsSphericalExact(self, s.r, s.theta, s.phi)

\* lines 355-359
to_cartesian(F, theta, phi) ==
    CASE Evaluated(F) ->
    IF IsRaised(F) THEN F
    ELSE Fields(_sph_2_car_field(F.E[1], F.E[2], F.E[3], theta, phi),
                _sph_2_car_field(F.H[1], F.H[2], F.H[3], theta, phi))

\* lines 354-359, s the (r, theta, phi) of line 353
fields_from(self, s) ==
    CASE Evaluated(s) ->
    to_cartesian(fields_spherical(self, s.r, s.theta, s.phi), s.theta, s.phi)

fields_cartesian(self, x, y, z) == fields_from(self, recentre(self, x, y, z))
FieldsCartesianExact(self, x, y, z) ==
    /\ RecentreExact(self, x, y, z)
    /\ SphericalExactAt(self, recentre(self, x, y, z))

Value(v) == [value |-> v]

\* lines 380-384
power_of(F) ==
    CASE Evaluated(F) ->
    IF IsRaised(F) THEN F
    ELSE Value(Add(Mul(Div(One, R(2)), Real(Mul(F.E[2], Conj(F.H[3])))),
                   Mul(Div(One, R(2)), Real(Mul(Neg(F.E[3]), Conj(F.H[2]))))))

power_spherical(self, r, theta, phi) == power_of(fields_spherical(self, r, theta, phi))

\* line 405, s the (r, theta, phi) of line 404
power_from(self, s) == CASE Evaluated(s) -> power_spherical(self, s.r, s.theta, s.phi)

power_cartesian(self, x, y, z) == power_from(self, _car_2_sph(x, y, z))
PowerCartesianExact(self, x, y, z) ==
    /\ CarExact(x, y, z)
    /\ SphericalExactAt(self, _car_2_sph(x, y, z))

\* lines 430-433; the value is in units of pi: constant = k0**2 / (8 * pi * ETA_0)
\* keeps one pi of k0**2
cross_section(self, rv) ==
    CASE Evaluated(rv) ->
    IF IsRaised(rv) THEN rv
    ELSE Value(Mul(Div(Mul(self.k0, self.k0), Mul(R(8), R(ETA_0))),
                   Add(AbsSq(Add(rv.L_phi, Mul(R(ETA_0), rv.N_theta))),
                       AbsSq(Sub(rv.L_theta, Mul(R(ETA_0), rv.N_phi))))))

cross_section_at(self, q) == CASE Evaluated(q) -> cross_section(self, _radiation_vectors(self, q.theta, q.phi))

radar_cross_section(self, r, theta, phi) ==
    cross_section_at(self, local_point(self, r, theta, phi))

(* ------------------------------------------------------------------ *)
(* the inputs                                                          *)
(* ------------------------------------------------------------------ *)

MaxMons == 2

Components == {"Ex", "Ey", "Ez", "Hx", "Hy", "Hz"}

\* a monitor's dataset entry: the stored components, each with its frequencies
FieldData(comps, freqs, others) ==
    [c \in comps |-> ScalarFieldData(c, IF c = "Ey" THEN freqs ELSE freqs \cup others)]

\* surfaces with full data at frequency 1
Mon_x == FieldMonitor(<<"m", "x">>, V3(-6, 0, 0), V3(0, 4, 6))
Mon_y == FieldMonitor(<<"m", "y">>, V3(6, 0, 0), V3(6, 0, 4))
Mon_z == FieldMonitor(<<"m", "z">>, V3(0, 0, 0), V3(4, 4, 0))
\* the same surface as Mon_x, named as a minus side
Mon_x_minus == FieldMonitor(<<"m", "x", "-">>, V3(-6, 0, 0), V3(0, 4, 6))
\* a narrow surface: few points along y
Mon_narrow == FieldMonitor(<<"n", "z">>, V3(0, 0, 0), V3(6, 2, 0))
\* not surfaces: a volume, a slab of small thickness, a line, a point
Mon_volume == FieldMonitor(<<"v">>, V3(0, 0, 0), V3(4, 4, 4))
Mon_thin == FieldMonitor(<<"t", "h">>, V3(0, 0, 0), V3(1, 4, 4))
Mon_line == FieldMonitor(<<"l", "n">>, V3(0, 0, 0), V3(0, 0, 4))
Mon_point == FieldMonitor(<<"p", "t">>, V3(0, 0, 0), V3(0, 0, 0))
\* surfaces whose data is missing or incomplete
Mon_gone == FieldMonitor(<<"g">>, V3(0, 0, 0), V3(4, 4, 0))
Mon_noE == FieldMonitor(<<"n", "E">>, V3(0, 0, 0), V3(0, 4, 4))
Mon_noH == FieldMonitor(<<"n", "H">>, V3(0, 0, 0), V3(4, 0, 4))
Mon_nof == FieldMonitor(<<"n", "f">>, V3(0, 0, 0), V3(4, 4, 0))

Monitors ==
    {Mon_x, Mon_y, Mon_z, Mon_x_minus, Mon_narrow, Mon_volume, Mon_thin, Mon_line,
     Mon_point, Mon_gone, Mon_noE, Mon_noH, Mon_nof}

\* the dataset: no entry for Mon_line and Mon_gone; Mon_point, Mon_noE and Mon_noH lack
\* components (Mon_noE also an H component) and frequency 1; Mon_nof stores Ey at
\* frequency 2 only, the other components at 1 and 2
SimulationData ==
    [n \in {Mon_x.name, Mon_y.name, Mon_z.name, Mon_x_minus.name, Mon_narrow.name,
            Mon_volume.name, Mon_thin.name} |-> FieldData(Components, {1}, {})]
    @@ (Mon_point.name :> FieldData({"Hx", "Hy", "Hz"}, {2}, {}))
    @@ (Mon_noE.name :> FieldData({"Ex", "Ez", "Hx", "Hy"}, {2}, {}))
    @@ (Mon_noH.name :> FieldData({"Ex", "Ey", "Ez", "Hy", "Hz"}, {2}, {}))
    @@ (Mon_nof.name :> FieldData(Components, {2}, {1}))

Datasets == {SimulationData}
MonitorLists == UNION {[1..n -> Monitors] : n \in 0..MaxMons}
Frequencies == {1, 2}
PointsPerWavelength == {2}

\* observation points: two distances along the six axis directions
Radii == {R(4), R(8)}
Angles == {<<0, 0>>, <<1, 0>>, <<1, 1>>, <<1, 2>>, <<1, -1>>, <<2, 0>>}
Points ==
    {<<Mul(c, e[1]), Mul(c, e[2]), Mul(c, e[3])>> :
        c \in {R(4), R(-8)}, e \in {V3(1, 0, 0), V3(0, 1, 0), V3(0, 0, 1)}}

(* ------------------------------------------------------------------ *)
(* the state machine                                                   *)
(* ------------------------------------------------------------------ *)

VARIABLES
    pc,                 \* "new", then "constructed" (the caller holds the engine) or "raised"
    sim_data, mons,     \* the arguments of the constructor call
    spacetime_sign, frequency, k0, pts_per_wavelength, data, origin,   \* the engine's fields
    exc,                \* the exception the constructor raised
    ret                 \* the query in progress and what it returns to its caller

engine == <<spacetime_sign, frequency, k0, pts_per_wavelength, data, origin>>
vars == <<pc, sim_data, mons, spacetime_sign, frequency, k0, pts_per_wavelength, data,
          origin, exc, ret>>

Self ==
    [spacetime_sign |-> spacetime_sign, frequency |-> frequency, k0 |-> k0,
     pts_per_wavelength |-> pts_per_wavelength, data |-> data, origin |-> origin]

NoCall == [op |-> "none"]

Init ==
    /\ pc = "new"
    /\ sim_data = <<>>
    /\ mons = <<>>
    /\ spacetime_sign = 0
    /\ frequency = 0
    /\ k0 = Zero
    /\ pts_per_wavelength = 0
    /\ data = <<>>
    /\ origin = <<>>
    /\ exc = NoException
    /\ ret = NoCall

\* the fields and the outcome the constructor call leaves
Assign(out) ==
    /\ spacetime_sign' = out.spacetime_sign
    /\ frequency' = out.frequency
    /\ k0' = out.k0
    /\ pts_per_wavelength' = out.pts_per_wavelength
    /\ data' = out.data
    /\ origin' = out.origin
    /\ exc' = out.exc
    /\ pc' = IF out.exc = NoException THEN "constructed" ELSE "raised"

\* Near2Far(sim_data, mons, frequency, pts_per_wavelength)
Construct(sd, ms, f, ppw) ==
    /\ pc = "new"
    /\ sim_data' = sd
    /\ mons' = ms
    /\ Assign(__init__(sd, ms, f, ppw))
    /\ UNCHANGED ret

\* a query that moves the origin to the point (0, 0, 0) it was asked about
QueryMovingOrigin(op, args, exact, out) ==
    /\ pc = "constructed"
    /\ ret = NoCall
    /\ exact = TRUE
    /\ ret' = [op |-> op, args |-> args, out |-> out]
    /\ origin' = V3(0, 0, 0)
    /\ UNCHANGED <<pc, sim_data, mons, spacetime_sign, frequency, k0, pts_per_wavelength,
                   data, exc>>

\* a query runs from its call to its return; the caller then takes the result.
\* exact: the model computes the query at these arguments without rounding
Query(op, args, exact, out) ==
    /\ pc = "constructed"
    /\ ret = NoCall
    /\ exact = TRUE
    /\ ret' = [op |-> op, args |-> args, out |-> out]
    /\ UNCHANGED <<pc, sim_data, mons, engine, exc>>

RadiationVectorsCall(theta, phi) ==
    Query("_radiation_vectors", [theta |-> theta, phi |-> phi],
          AnglesExact(Self, [theta |-> theta, phi |-> phi]),
          _radiation_vectors(Self, theta, phi))

FieldsSpherical(r, theta, phi) ==
    Query("fields_spherical", [r |-> r, theta |-> theta, phi |-> phi],
          FieldsSphericalExact(Self, r, theta, phi),
          fields_spherical(Self, r, theta, phi))

FieldsCartesian(x, y, z) ==
    Query("fields_cartesian", [x |-> x, y |-> y, z |-> z],
          FieldsCartesianExact(Self, x, y, z),
          fields_cartesian(Self, x, y, z))

PowerSpherical(r, theta, phi) ==
    Query("power_spherical", [r |-> r, theta |-> theta, phi |-> phi],
          FieldsSphericalExact(Self, r, theta, phi),
          power_spherical(Self, r, theta, phi))

PowerCartesian(x, y, z) ==
    Query("power_cartesian", [x |-> x, y |-> y, z |-> z],
          PowerCartesianExact(Self, x, y, z),
          power_cartesian(Self, x, y, z))

RadarCrossSection(r, theta, phi) ==
    Query("radar_cross_section", [r |-> r, theta |-> theta, phi |-> phi],
          LocalExact(Self, r, theta, phi),
          radar_cross_section(Self, r, theta, phi))

\* the caller takes what the query returned (or raised)
Return ==
    /\ ret # NoCall
    /\ ret' = NoCall
    /\ UNCHANGED <<pc, sim_data, mons, engine, exc>>

Next ==
    \/ \E sd \in Datasets, ms \in MonitorLists, f \in Frequencies, ppw \in PointsPerWavelength :
          Construct(sd, ms, f, ppw)
    \/ \E a \in Angles : RadiationVectorsCall(a[1], a[2])
    \/ \E r \in Radii, a \in Angles : FieldsSpherical(r, a[1], a[2])
    \/ \E p \in Points : FieldsCartesian(p[1], p[2], p[3])
    \/ \E r \in Radii, a \in Angles : PowerSpherical(r, a[1], a[2])
    \/ \E p \in Points : PowerCartesian(p[1], p[2], p[3])
    \/ \E r \in Radii, a \in Angles : RadarCrossSection(r, a[1], a[2])
    \/ Return

Spec == Init /\ [][Next]_vars

(* ------------------------------------------------------------------ *)
(* the contract, stated on the states of the machine                   *)
(* ------------------------------------------------------------------ *)

AxisName == <<"x", "y", "z">>

\* the number of nonzero extents of a size triple
NonzeroExtents(size) == Cardinality({i \in 1..3 : size[i] # Zero})

IsSurface(m) == NonzeroExtents(m.size) = 2

\* the E and H components along the extended axes of a monitor
TangentialFields(m, prefix) == {prefix \o AxisName[i] : i \in {k \in 1..3 : m.size[k] # Zero}}

HasEntry(sd, m) == m.name \in DOMAIN sd
HasFields(sd, m, prefix) == TangentialFields(m, prefix) \subseteq DOMAIN sd[m.name]
HasFrequency(sd, m, f) ==
    \A c \in TangentialFields(m, "E") \cup TangentialFields(m, "H") : f \in sd[m.name][c].f

\* a monitor construction cannot use
Defective(sd, m, f) ==
    \/ ~IsSurface(m)
    \/ ~HasEntry(sd, m)
    \/ ~HasFields(sd, m, "E")
    \/ ~HasFields(sd, m, "H")
    \/ ~HasFrequency(sd, m, f)

\* the constructor's loop ended at a monitor, and the monitor it ended at
LoopRaised == pc = "raised" /\ Len(data) < Len(mons)
Offender == mons[Len(data) + 1]

\* the permutations of 1..n, and a sequence in the order of one
Perms(n) == {p \in [1..n -> 1..n] : \A a, b \in 1..n : p[a] = p[b] => a = b}
Reordered(s, p) == [k \in 1..Len(s) |-> s[p[k]]]

\* C1: a monitor whose extents have zero, one or three nonzero entries is rejected with the
\* "not a surface" SetupError, whether or not the dataset has an entry for it, and a monitor
\* with exactly two nonzero extents never gets this error
C1_NotASurfaceRejected ==
    pc # "new" =>
        /\ \A i \in 1..Len(data) : NonzeroExtents(mons[i].size) = 2
        /\ (Len(data) < Len(mons)) =>
              (NonzeroExtents(Offender.size) # 2 <=> exc = NotASurface(Offender))

\* a line, which the dataset has no entry for, is rejected for its geometry
C1_LineRejected ==
    /\ LoopRaised
    /\ Offender = Mon_line
    /\ ~HasEntry(sim_data, Mon_line)
    /\ exc = NotASurface(Mon_line)

\* C2: when any monitor of the list, at any position, is not a surface, has no dataset
\* entry, lacks a tangential E or H component or lacks the frequency, the constructor
\* raises SetupError and the caller gets no engine: no query is ever answered
C2_AllOrNothing ==
    (pc # "new" /\ \E i \in 1..Len(mons) : Defective(sim_data, mons[i], frequency)) =>
        /\ pc = "raised"
        /\ exc.raised = "SetupError"
        /\ ret = NoCall

\* a defective monitor after a valid one, whose data had been extracted
C2_DefectAfterValid ==
    /\ pc = "raised"
    /\ Len(mons) = 2
    /\ Len(data) = 1
    /\ ~Defective(sim_data, mons[1], frequency)
    /\ Defective(sim_data, mons[2], frequency)

\* the error the contract gives a defective monitor: the first defect in the order
\* geometry, dataset entry, E component, H component, frequency
ExpectedError(sd, m, f) ==
    IF ~IsSurface(m) THEN NotASurface(m)
    ELSE IF ~HasEntry(sd, m) THEN NoData(m)
    ELSE IF ~HasFields(sd, m, "E") THEN NoEField(m)
    ELSE IF ~HasFields(sd, m, "H") THEN NoHField(m)
    ELSE NoFrequency(m, f)

\* C3: a frequency the monitor's fields do not store raises a SetupError that names the
\* monitor and the frequency, with a message unlike those of the other errors; a monitor
\* with several defects gets the error of the first one in the order geometry, dataset
\* entry, E component, H component, frequency
C3_ErrorOrder ==
    LoopRaised =>
        /\ exc = ExpectedError(sim_data, Offender, frequency)
        /\ exc.raised = "SetupError"
        /\ exc.name = Offender.name
        /\ (exc.fmt = NoFrequency(Offender, frequency).fmt) => exc.frequency = frequency
        /\ Cardinality({NotASurface(Offender).fmt, NoData(Offender).fmt, NoEField(Offender).fmt,
                        NoHField(Offender).fmt, NoFrequency(Offender, frequency).fmt}) = 5

\* the frequency is the monitor's only defect
C3_FrequencyMissing ==
    /\ LoopRaised
    /\ IsSurface(Offender)
    /\ HasEntry(sim_data, Offender)
    /\ HasFields(sim_data, Offender, "E")
    /\ HasFields(sim_data, Offender, "H")
    /\ ~HasFrequency(sim_data, Offender, frequency)
    /\ exc = NoFrequency(Offender, frequency)

\* the sum of the monitors' centres along axis i
CenterSum(ms, i) == SumNum([k \in 1..Len(ms) |-> ms[k].center[i]])

\* C4: after a successful construction from N >= 1 monitors, N * origin[i] is the sum of
\* the monitors' center[i], and the constructor gives the same origin for the monitors in
\* any other order
C4_OriginIsMean ==
    pc = "constructed" =>
        /\ Len(mons) >= 1
        /\ \A i \in 1..3 : Mul(R(Len(mons)), origin[i]) = CenterSum(mons, i)
        /\ ret = NoCall =>
              \A p \in Perms(Len(mons)) :
                  __init__(sim_data, Reordered(mons, p), frequency, pts_per_wavelength).origin
                      = origin

\* two monitors with different centres
C4_TwoCentres ==
    /\ pc = "constructed"
    /\ Len(mons) = 2
    /\ mons[1].center # mons[2].center
    /\ origin # mons[1].center

\* C5: each of the two J and two M arrays of a monitor has the shape of its grid_points,
\* also when there is one point along a tangential axis
C5_ShapesOfGrid ==
    \A i \in 1..Len(data) : \A k \in 1..2 :
        /\ data[i].J[k].shape = data[i].grid_points[1].shape
        /\ data[i].M[k].shape = data[i].grid_points[1].shape
        /\ data[i].grid_points[2].shape = data[i].grid_points[1].shape

SumOfVectors(V) ==
    CASE Evaluated(V) ->
        RadiationVectors(SumNum([k \in 1..Len(V) |-> V[k].N_theta]),
                         SumNum([k \in 1..Len(V) |-> V[k].N_phi]),
                         SumNum([k \in 1..Len(V) |-> V[k].L_theta]),
                         SumNum([k \in 1..Len(V) |-> V[k].L_phi]))

PerMonitor(self, theta, phi) ==
    [k \in 1..Len(self.data) |->
        _radiation_vectors_per_monitor(self, theta, phi, self.data[k])]

\* C7: each of N_theta, N_phi, L_theta, L_phi of _radiation_vectors is the sum of the
\* values _radiation_vectors_per_monitor gives the monitors with the same origin, and
\* _radiation_vectors gives the same for the monitors in any other order
C7_Additive ==
    (ret.op = "_radiation_vectors" /\ ~IsRaised(ret.out)) =>
        /\ ret.out = SumOfVectors(PerMonitor(Self, ret.args.theta, ret.args.phi))
        /\ \A p \in Perms(Len(data)) :
              _radiation_vectors([Self EXCEPT !.data = Reordered(data, p)],
                                 ret.args.theta, ret.args.phi) = ret.out

\* two monitors that both radiate towards the angle
C7_TwoMonitors ==
    /\ ret.op = "_radiation_vectors"
    /\ ~IsRaised(ret.out)
    /\ Len(data) = 2
    /\ \A k \in 1..2 :
          _radiation_vectors_per_monitor(Self, ret.args.theta, ret.args.phi, data[k])
              # RadiationVectors(Zero, Zero, Zero, Zero)

\* the constant the sources are scaled by: (1 - i) / 2, neither real nor of modulus 1
Scalars == {<<1, -1, 2>>}

\* the engine with every J and M sample multiplied by c
ScaledSources(d, c) ==
    [d EXCEPT !.J = <<Scale(c, d.J[1]), Scale(c, d.J[2])>>,
              !.M = <<Scale(c, d.M[1]), Scale(c, d.M[2])>>]
Scaled(self, c) ==
    [self EXCEPT !.data = [k \in 1..Len(self.data) |-> ScaledSources(self.data[k], c)]]

Times(c, A) == [i \in 1..3 |-> Mul(c, A[i])]

\* C8: with every monitor's J and M multiplied by c, fields_spherical gives c times the
\* E and H it gave, power_spherical and radar_cross_section give |c|^2 times their value
C8_Linear ==
    \A c \in Scalars :
        /\ (ret.op = "fields_spherical" /\ ~IsRaised(ret.out)) =>
              fields_spherical(Scaled(Self, c), ret.args.r, ret.args.theta, ret.args.phi)
                  = Fields(Times(c, ret.out.E), Times(c, ret.out.H))
        /\ (ret.op = "power_spherical" /\ ~IsRaised(ret.out)) =>
              power_spherical(Scaled(Self, c), ret.args.r, ret.args.theta, ret.args.phi)
                  = Value(Mul(AbsSq(c), ret.out.value))
        /\ (ret.op = "radar_cross_section" /\ ~IsRaised(ret.out)) =>
              radar_cross_section(Scaled(Self, c), ret.args.r, ret.args.theta, ret.args.phi)
                  = Value(Mul(AbsSq(c), ret.out.value))

\* a point the engine radiates power to
C8_PowerRadiated ==
    /\ ret.op = "power_spherical"
    /\ ~IsRaised(ret.out)
    /\ ret.out.value # Zero

\* a surface of small but nonzero thickness: the thinnest extent is nonzero, the other
\* two are larger
IsThin(m) ==
    \E a \in 1..3 :
        /\ m.size[a] # Zero
        /\ \A b \in (1..3) \ {a} : Less(m.size[a], m.size[b])

\* C9: a monitor whose thinnest extent is small but nonzero, the other two being larger,
\* is accepted as a surface and gets the thinnest axis as its normal axis
C9_ThinAccepted ==
    /\ LoopRaised /\ IsThin(Offender) => exc # NotASurface(Offender)
    /\ \A i \in 1..Len(data) :
          IsThin(mons[i]) => \A b \in 1..3 : ~Less(mons[i].size[b], mons[i].size[data[i].mon_axis + 1])

Cross(a, b) ==
    << Sub(Mul(a[2], b[3]), Mul(a[3], b[2])),
       Sub(Mul(a[3], b[1]), Mul(a[1], b[3])),
       Sub(Mul(a[1], b[2]), Mul(a[2], b[1])) >>

UnitNormal(mon_axis) == [i \in 1..3 |-> IF i = mon_axis + 1 THEN One ELSE Zero]

\* the k-th point of a monitor's grid, in space
GridPoint(d, k) ==
    LET tangential == {i \in 1..3 : i # d.mon_axis + 1}
        u == CHOOSE i \in tangential : \A j \in tangential : i <= j
    IN  [i \in 1..3 |->
            IF i = d.mon_axis + 1 THEN d.center[i]
            ELSE IF i = u THEN d.grid_points[1].flat[k] ELSE d.grid_points[2].flat[k]]

\* the field the dataset stores for a monitor, at a point
FieldAt(entry, prefix, p) == [i \in 1..3 |-> Mul(entry[prefix \o AxisName[i]].amp, Profile(p))]

\* the 3-vector _radiation_vectors_per_monitor assembles from the k-th samples of a pair
SourceAt(self, d, pair, k) ==
    source_vector(local_coordinates(self, d).source_indices,
                  Scalar(pair[1].flat[k]), Scalar(pair[2].flat[k]))

\* C10: for a monitor without "-" in its name, of any of the three normal axes, the
\* vector assembled from data.J is n x H and the one from data.M is -(n x E), n the
\* positive unit normal, so their components along the normal are zero; the table of
\* the axes is 0 -> (y, z, [-1, 1]), 1 -> (x, z, [1, -1]), 2 -> (x, y, [-1, 1])
C10_CrossProducts ==
    /\ axis_table(0).required_fields = <<"y", "z">> /\ axis_table(0).signs = <<R(-1), R(1)>>
    /\ axis_table(1).required_fields = <<"x", "z">> /\ axis_table(1).signs = <<R(1), R(-1)>>
    /\ axis_table(2).required_fields = <<"x", "y">> /\ axis_table(2).signs = <<R(-1), R(1)>>
    /\ (pc = "constructed" /\ ret = NoCall) =>
          \A i \in 1..Len(data) :
              "-" \notin Chars(mons[i].name) =>
                  \A k \in 1..Len(data[i].grid_points[1].flat) :
                      /\ SourceAt(Self, data[i], data[i].J, k)
                            = Cross(UnitNormal(data[i].mon_axis),
                                    FieldAt(sim_data[mons[i].name], "H", GridPoint(data[i], k)))
                      /\ SourceAt(Self, data[i], data[i].M, k)
                            = Times(R(-1), Cross(UnitNormal(data[i].mon_axis),
                                    FieldAt(sim_data[mons[i].name], "E", GridPoint(data[i], k))))
                      /\ SourceAt(Self, data[i], data[i].J, k)[data[i].mon_axis + 1] = Zero
                      /\ SourceAt(Self, data[i], data[i].M, k)[data[i].mon_axis + 1] = Zero

\* monitors of two normal axes, one of them y with its signs [1, -1]
C10_TwoAxes ==
    /\ pc = "constructed"
    /\ ret = NoCall
    /\ Len(data) = 2
    /\ data[1].mon_axis = 1
    /\ data[2].mon_axis # 1
    /\ \A i \in 1..Len(data) : "-" \notin Chars(mons[i].name)

\* the monitor m under another name, and the dataset with the field data of m under it
Renamed(m, name) == [m EXCEPT !.name = name]
WithEntry(sd, m, name) == (name :> sd[m.name]) @@ sd

\* a name without its "-" characters, and with one "-" at its end or at its front
Plain(name) == SelectSeq(name, LAMBDA c : c # "-")
TaggedLast(name) == Plain(name) \o <<"-">>
TaggedFirst(name) == <<"-">> \o Plain(name)

\* what _get_data_from_monitor extracts for the geometry and field data of m under a name
Extracted(self, sd, m, name) ==
    _get_data_from_monitor(self, WithEntry(sd, m, name), Renamed(m, name))

\* the negation of every sample of a pair of arrays
Negated(pair) ==
    [k \in 1..2 |->
        [shape |-> pair[k].shape,
         flat |-> [j \in 1..Len(pair[k].flat) |-> Neg(pair[k].flat[j])]]]

\* the extraction of the i-th monitor is that of its geometry and data under any name
\* with "-" when its own name has one, and under the name without "-" when it has none
SameSide(d, minus, plain, tagged) == IF tagged THEN d = minus ELSE d = plain

\* C11: of two monitors with the same geometry and field data, one with "-" in its name
\* (anywhere) and one without, the J and M of the first are the negation of the J and M of
\* the second, on the same grid; a monitor is flipped exactly when its name has a "-"
C11_FlipIffMinus ==
    (pc = "constructed" /\ ret = NoCall) =>
        \A i \in 1..Len(data) :
            LET plain == Extracted(Self, sim_data, mons[i], Plain(mons[i].name))
                last == Extracted(Self, sim_data, mons[i], TaggedLast(mons[i].name))
                first == Extracted(Self, sim_data, mons[i], TaggedFirst(mons[i].name))
            IN  /\ last.J = Negated(plain.J)
                /\ last.M = Negated(plain.M)
                /\ last.grid_points = plain.grid_points
                /\ first = last
                /\ SameSide(data[i], last, plain, "-" \in Chars(mons[i].name))

\* the two sides of a pair, with sources that are not zero
C11_BothSides ==
    /\ pc = "constructed"
    /\ ret = NoCall
    /\ mons = <<Mon_x, Mon_x_minus>>
    /\ data[2].J = Negated(data[1].J)
    /\ data[2].J # data[1].J
    /\ data[2].M # data[1].M

\* the observation point p - origin of a query at the point (x, y, z), in spherical
\* coordinates, and whether the model computes the fields there without rounding
Observed(self, x, y, z) == recentre(self, x, y, z)
ObservedExact(self, x, y, z) ==
    /\ RecentreExact(self, x, y, z)
    /\ AnglesExact(self, Observed(self, x, y, z))
    /\ ExpExact(radial_arg(self, Observed(self, x, y, z).r))

\* the fields at the direction and distance of q, rotated to cartesian at the angles of q
CartesianFieldsAt(self, q) == to_cartesian(fields_at(self, q), q.theta, q.phi)

\* C12: fields_cartesian(x, y, z) and power_cartesian(x, y, z) both evaluate the radiation
\* vectors at the direction and the distance of (x, y, z) - origin, the point re-centred
\* once, and fields_cartesian rotates the fields to cartesian at the angles of that point
C12_RecentredOnce ==
    /\ (ret.op = "fields_cartesian" /\ ~IsRaised(ret.out)
            /\ ObservedExact(Self, ret.args.x, ret.args.y, ret.args.z)) =>
          ret.out = CartesianFieldsAt(Self, Observed(Self, ret.args.x, ret.args.y, ret.args.z))
    /\ (ret.op = "power_cartesian" /\ ~IsRaised(ret.out)
            /\ ObservedExact(Self, ret.args.x, ret.args.y, ret.args.z)) =>
          ret.out = power_of(fields_at(Self, Observed(Self, ret.args.x, ret.args.y, ret.args.z)))

\* C13: construction from any list of monitors, the empty list included, either returns
\* an engine whose origin is a point of three coordinates or raises SetupError
C13_TwoOutcomes ==
    pc # "new" =>
        \/ pc = "constructed" /\ exc = NoException /\ Len(origin) = 3
        \/ pc = "raised" /\ exc.raised = "SetupError"

====
